---- MODULE Spec2Model ----
(***************************************************************************)
(* Export-and-dispatch client of the Vid2Frames repository.                *)
(*                                                                         *)
(* Preview flow (src/unnamed/part_001): generateDocument fetches a PDF,    *)
(* wraps it in a Blob, creates an object URL for the preview iframe and    *)
(* stores both in component state; a useEffect cleanup revokes the URL     *)
(* when it is replaced or the component unmounts; downloadPdf and          *)
(* sendPdfToOutlook are the two handlers hooked to the Send button; the    *)
(* /send-outlook-mail route answers 200 or 500.                            *)
(*                                                                         *)
(* Attachment flow (src/Client/src/poc-2/NodeMailerSetup.md): generateWord,*)
(* generateSharePPT, generateExcel and generateDocument build a File and   *)
(* store it in selectedFile; sendMail posts selectedFile to /send-mail.    *)
(*                                                                         *)
(* generateExcel step by step (NodeMailerSetup.md lines 622-832): the      *)
(* timestamp map of the index records, the app types, the metadata sheet,  *)
(* one row and one image per step, and the catch block; its formatters     *)
(* epochToHHMMSS and singleToDouble, also called on their own.             *)
(*                                                                         *)
(* Server routes: /send-mail (NodeMailerSetup.md), /send-outlook-mail      *)
(* (src/unnamed/part_001) and /userinDB (src/unnamed/part_000).            *)
(*                                                                         *)
(* generateWord step by step, in its two versions (NodeMailerSetup.md      *)
(* lines 454-519, MicrosoftGraph.md lines 468-513), and the epochToHHMMSS  *)
(* of MicrosoftGraph.md lines 672-683.                                     *)
(*                                                                         *)
(* Frame-extraction client (src/Client/src/App.tsx): file selection, the   *)
(* fps select, handleExtractFrames with its upload to /upload, the         *)
(* progress events and the two continuations of the request.               *)
(***************************************************************************)
EXTENDS Integers, Sequences, FiniteSets, TLC

\* ---- bounds of the model -------------------------------------------------
MaxGenerate == 2      \* calls of generateDocument
MaxDownload == 1      \* clicks on a Send button hooked to downloadPdf
MaxSend == 2          \* clicks on a Send button hooked to sendPdfToOutlook
MaxRemount == 1       \* times the previewing component is mounted again

\* useState<...|null>(null): the empty value of pdfPreviewUrl and pdfBlob
Null == 0

MaxBuild == 2         \* calls of the generate functions that store selectedFile
MaxMail == 2          \* calls of sendMail

MaxUrls == MaxGenerate + MaxDownload
Urls == 1 .. MaxUrls

VARIABLES
    mounted,          \* the component holding the preview state exists
    pdfPreviewUrl,    \* state: object URL shown in the iframe, or Null
    pdfBlob,          \* state: the generated Blob (its id), or Null
    effectUrl,        \* pdfPreviewUrl captured by the installed effect
    isLoading,        \* prop of DocumentPreview, supplied by the parent
    notify,           \* store: last CALL_NOTIFY payload
    genPending,       \* generateDocument calls awaiting ProcessService.get
    genStale,         \* the same, of a component that has been unmounted
    urlCreated,       \* URL.createObjectURL calls so far; URLs are 1..urlCreated
    revokeCount,      \* URL.revokeObjectURL calls per URL
    blobCreated,      \* Blobs built so far; Blobs are 1..blobCreated
    sends,            \* fetches to /api/send-outlook-mail in flight
    \* history of the run
    genCalls,         \* generateDocument calls
    lastGen,          \* outcome of the latest completed generate: none/ok/failed
    sendAccepted,     \* sendPdfToOutlook calls that passed `if (!pdfBlob) return`
    fetchCount,       \* fetch calls issued by sendPdfToOutlook
    sentOk,           \* a send of the Blob now in state got status 200
    downloadClicks,   \* user clicks on the Send button hooked to downloadPdf
    downloads,        \* fileLink.click() calls: downloads triggered
    mounts,           \* times the component was mounted again
    \* attachment flow
    selectedFile,     \* state: the File to attach (in App.tsx: the video), or NoFile
    builds,           \* generate functions awaiting their builder
    buildCalls,       \* calls of those generate functions
    lastBuild,        \* outcome of the latest completed one: none/ok/failed
    mails,            \* axios posts to /send-mail in flight
    mailCalls,        \* calls of sendMail
    \* generateExcel, step by step
    stepData,         \* parsedData.stepData, as Object.entries lists it
    elasticData,      \* dataElastic.current.data.elasticsearchFieldsData
    variantType,      \* variantDataFromReducer.type
    nodes,            \* parsedData.nodes
    excelStage,       \* position of generateExcel in its try block
    apptypes,         \* the local array apptypes
    workbook,         \* the Excel.Workbook: its two sheets and its images
    caught,           \* the exception the catch block received, if any
    \* the formatters
    fmtCall,          \* a formatter and the argument it is called with
    fmtResult,        \* the string it returned
    \* the server routes
    httpReq,          \* the request a route handler is serving
    httpRes,          \* the responses sent for it, in order
    outbox,           \* the mails handed to the transport for it, in order
    userTable,        \* the rows of the User table
    lookup,           \* what userRepository.find did for the request
    \* generateWord, step by step
    wordSource,       \* the file whose generateWord is running
    wordStage,        \* position of generateWord in its try block
    doc,              \* the local doc: what VariantWordDoc resolved to
    packerCalls,      \* calls of Packer.toBuffer or Packer.toBlob
    wordCalls,        \* calls of generateWord
    \* the frame-extraction client (App.tsx); its selectedFile is the one above
    fps,              \* state: frames per second
    isProcessing,     \* state: an extraction is running
    processingStatus, \* state: stage, progress and message
    extractedFrames,  \* state: the frames shown in the gallery
    isDragOver,       \* state: a file is dragged over the upload section
    uploads,          \* axios posts to /upload in flight
    extractCalls      \* calls of handleExtractFrames that got past its guard

vars == <<mounted, pdfPreviewUrl, pdfBlob, effectUrl, isLoading,
          notify, genPending, genStale, urlCreated, revokeCount, blobCreated,
          sends, genCalls, lastGen, sendAccepted, fetchCount,
          sentOk, downloadClicks, downloads, mounts,
          selectedFile, builds, buildCalls, lastBuild, mails, mailCalls,
          stepData, elasticData, variantType, nodes, excelStage, apptypes, workbook,
          caught, fmtCall, fmtResult, httpReq, httpRes, outbox, userTable,
          lookup, wordSource, wordStage, doc, packerCalls, wordCalls,
          fps, isProcessing, processingStatus, extractedFrames, isDragOver,
          uploads, extractCalls>>

storeVars == <<notify>>
stateVars == <<pdfPreviewUrl, pdfBlob>>
urlVars == <<urlCreated, revokeCount>>
genVars == <<genPending, genStale, genCalls, lastGen, blobCreated>>
sendVars == <<sends, sendAccepted, fetchCount, sentOk>>
downloadVars == <<downloadClicks, downloads>>
mountVars == <<mounted, mounts>>
attachVars == <<selectedFile, builds, buildCalls, lastBuild, mails, mailCalls>>
previewVars == <<stateVars, effectUrl, isLoading, urlVars, genVars, sendVars,
                 downloadVars, mountVars>>
excelInputs == <<stepData, elasticData, variantType, nodes>>
excelVars == <<excelInputs, excelStage, apptypes, workbook, caught>>
fmtVars == <<fmtCall, fmtResult>>
routeVars == <<httpReq, httpRes, outbox, userTable, lookup>>
wordVars == <<wordSource, wordStage, doc, packerCalls, wordCalls>>
frameVars == <<fps, isProcessing, processingStatus, extractedFrames, isDragOver,
               uploads, extractCalls>>
appVars == <<wordVars, frameVars>>
exportVars == <<excelVars, fmtVars, routeVars, appVars>>

\* ---- the notifications the handlers dispatch -----------------------------
NoNotify == [type |-> "NONE", msg |-> ""]
NotifyGenerated == [type |-> "SUCCESS", msg |-> "PDF generated. Preview before sending."]
NotifyGenerateFailed == [type |-> "ERROR", msg |-> "Unable to generate document"]
NotifySent == [type |-> "SUCCESS", msg |-> "Email sent successfully!"]
NotifySendFailed == [type |-> "ERROR", msg |-> "Failed to send email"]

\* ---- files ---------------------------------------------------------------
\* useState<File | null>(null): no file
NoFile == [name |-> "", type |-> "", build |-> 0]

\* ---- object URLs ---------------------------------------------------------
\* URL.revokeObjectURL(url)
revokeObjectURL(rc, url) == [rc EXCEPT ![url] = @ + 1]

\* the cleanup of useEffect(..., [pdfPreviewUrl]): revokes the URL it captured
useEffectCleanup_missing(rc, url) == rc

useEffectCleanup(rc, url) == IF url # Null THEN revokeObjectURL(rc, url) ELSE rc

\* object URLs created and not revoked
LiveUrls == {u \in 1 .. urlCreated : revokeCount[u] = 0}

\* React has committed the latest pdfPreviewUrl: the installed effect is the
\* one of the current value
EffectsFlushed == effectUrl = pdfPreviewUrl

\* ---- values of the export functions and of the routes before they run ----
\* the catch block has received nothing
NoError == [kind |-> "none"]

\* new Excel.Workbook(): no worksheet, no image
NoWorkbook == [sheets |-> <<>>, media |-> <<>>, anchors |-> <<>>]

\* no formatter is being called
NoCall == [fn |-> "none", arg |-> 0]

\* no request is being served
NoRequest == [route |-> "none"]

\* the component before any export function has run
InitClient ==
    /\ mounted = TRUE
    /\ pdfPreviewUrl = Null
    /\ pdfBlob = Null
    /\ effectUrl = Null
    /\ isLoading = FALSE
    /\ notify = NoNotify
    /\ genPending = 0
    /\ genStale = 0
    /\ urlCreated = 0
    /\ revokeCount = [u \in Urls |-> 0]
    /\ blobCreated = 0
    /\ sends = {}
    /\ genCalls = 0
    /\ lastGen = "none"
    /\ sendAccepted = 0
    /\ fetchCount = 0
    /\ sentOk = FALSE
    /\ downloadClicks = 0
    /\ downloads = 0
    /\ mounts = 0
    /\ selectedFile = NoFile
    /\ builds = {}
    /\ buildCalls = 0
    /\ lastBuild = "none"
    /\ mails = {}
    /\ mailCalls = 0

\* generateExcel has not been called
ExcelIdle ==
    /\ excelStage = "idle"
    /\ apptypes = <<>>
    /\ workbook = NoWorkbook
    /\ caught = NoError

\* no variant is loaded
NoVariant ==
    /\ stepData = <<>>
    /\ elasticData = <<>>
    /\ variantType = "variant"
    /\ nodes = <<>>

FmtIdle ==
    /\ fmtCall = NoCall
    /\ fmtResult = <<>>

\* generateWord has not been called
WordIdle ==
    /\ wordSource = "NodeMailerSetup.md"
    /\ wordStage = "idle"
    /\ doc = "pending"
    /\ packerCalls = 0
    /\ wordCalls = 0

\* App.tsx lines 26-38: the useState initial values (selectedFile is null)
FramesIdle ==
    /\ fps = 1
    /\ isProcessing = FALSE
    /\ processingStatus = [stage |-> "idle", progress |-> 0, message |-> ""]
    /\ extractedFrames = <<>>
    /\ isDragOver = FALSE
    /\ uploads = {}
    /\ extractCalls = 0

\* the servers are listening and have received nothing
RoutesIdle ==
    /\ httpReq = NoRequest
    /\ httpRes = <<>>
    /\ outbox = <<>>
    /\ lookup = "none"
    /\ userTable = <<>>

Init ==
    /\ InitClient
    /\ NoVariant
    /\ ExcelIdle
    /\ FmtIdle
    /\ RoutesIdle
    /\ WordIdle
    /\ FramesIdle


\* ---- generate (generateDocument, part_001 lines 4-46) --------------------
\* lines 4-16: show the screen block and await ProcessService.get. The
\* function tests nothing before it issues the request.
generateDocument ==
    /\ genCalls < MaxGenerate
    /\ genPending' = genPending + 1
    /\ genCalls' = genCalls + 1
    /\ UNCHANGED <<notify, stateVars, effectUrl, isLoading, urlVars, genStale,
                   lastGen, blobCreated, sendVars, downloadVars, mountVars, attachVars, exportVars>>

\* the Generate button of DocumentPreview: disabled={isLoading}
onGenerate ==
    /\ mounted
    /\ EffectsFlushed
    /\ ~isLoading
    /\ generateDocument

\* one awaited request completes: of the mounted component (live) or of one
\* that was unmounted meanwhile, whose state setters no longer have an effect
takePending(live) ==
    IF live
    THEN genPending > 0 /\ genPending' = genPending - 1 /\ UNCHANGED genStale
    ELSE genStale > 0 /\ genStale' = genStale - 1 /\ UNCHANGED genPending

\* lines 18-23: new Blob, URL.createObjectURL, setPdfPreviewUrl, setPdfBlob
storePreview(live) ==
    /\ blobCreated' = blobCreated + 1
    /\ urlCreated' = urlCreated + 1
    /\ IF live
       THEN /\ pdfPreviewUrl' = urlCreated + 1
            /\ pdfBlob' = blobCreated + 1
            /\ lastGen' = "ok"
            /\ sentOk' = FALSE
       ELSE UNCHANGED <<pdfPreviewUrl, pdfBlob, lastGen, sentOk>>

\* a generate that also clicks a download link for the file it built
generateResolved_download ==
    /\ EffectsFlushed
    /\ \E live \in BOOLEAN : takePending(live) /\ storePreview(live)
    /\ notify' = NotifyGenerated
    /\ downloads' = downloads + 1
    /\ UNCHANGED <<effectUrl, isLoading, revokeCount, genCalls, sends,
                   sendAccepted, fetchCount, downloadClicks, mountVars, attachVars, exportVars>>

\* lines 18-32 and 43-45: the await resolved
generateResolved ==
    /\ EffectsFlushed
    /\ \E live \in BOOLEAN : takePending(live) /\ storePreview(live)
    /\ notify' = NotifyGenerated
    /\ UNCHANGED <<effectUrl, isLoading, revokeCount, genCalls, sends,
                   sendAccepted, fetchCount, downloadVars, mountVars, attachVars, exportVars>>

\* lines 33-45: the await rejected; the catch notifies and sets no state
generateRejected ==
    /\ EffectsFlushed
    /\ \E live \in BOOLEAN :
          /\ takePending(live)
          /\ lastGen' = IF live THEN "failed" ELSE lastGen
    /\ notify' = NotifyGenerateFailed
    /\ UNCHANGED <<stateVars, effectUrl, isLoading, urlVars, genCalls,
                   blobCreated, sendVars, downloadVars, mountVars, attachVars, exportVars>>

\* ---- the effect of lines 100-106 -----------------------------------------
\* React commits a changed pdfPreviewUrl: the cleanup of the effect of the
\* previous value runs, then the effect of the new value is installed. The
\* commit runs before any further handler.
commitEffect ==
    /\ mounted
    /\ ~EffectsFlushed
    /\ revokeCount' = useEffectCleanup(revokeCount, effectUrl)
    /\ effectUrl' = pdfPreviewUrl
    /\ UNCHANGED <<stateVars, isLoading, storeVars, urlCreated, genVars,
                   sendVars, downloadVars, mountVars, attachVars, exportVars>>

\* the user closes the preview or navigates away: the cleanup runs and the
\* component's state is gone; requests it awaits complete later on their own
unmount ==
    /\ mounted
    /\ EffectsFlushed
    /\ revokeCount' = useEffectCleanup(revokeCount, effectUrl)
    /\ mounted' = FALSE
    /\ pdfPreviewUrl' = Null
    /\ pdfBlob' = Null
    /\ effectUrl' = Null
    /\ genStale' = genStale + genPending
    /\ genPending' = 0
    /\ lastGen' = "none"
    /\ sentOk' = FALSE
    /\ UNCHANGED <<isLoading, storeVars, urlCreated, genCalls, blobCreated,
                   sends, sendAccepted, fetchCount, downloadVars, mounts,
                   attachVars, exportVars>>

\* the preview is opened again: useState(null) for both pieces of state
mount ==
    /\ ~mounted
    /\ mounts < MaxRemount
    /\ mounted' = TRUE
    /\ mounts' = mounts + 1
    /\ UNCHANGED <<stateVars, effectUrl, isLoading, storeVars, urlVars,
                   genVars, sendVars, downloadVars, attachVars, exportVars>>

\* the parent renders DocumentPreview with another value of its optional
\* isLoading prop; no handler of the source sets it
setIsLoading ==
    /\ mounted
    /\ isLoading' = ~isLoading
    /\ UNCHANGED <<stateVars, effectUrl, storeVars, urlVars, genVars,
                   sendVars, downloadVars, mountVars, attachVars, exportVars>>


\* ---- download (downloadPdf, part_001 lines 75-88) ------------------------
\* "Hook this to your Send button": a click runs downloadPdf, which returns
\* at once without a Blob and otherwise creates an object URL for the link,
\* clicks the link and removes it; the URL of line 79 is not revoked.
downloadPdf ==
    IF pdfBlob = Null
    THEN UNCHANGED <<urlCreated, downloads>>
    ELSE /\ urlCreated' = urlCreated + 1
         /\ downloads' = downloads + 1

onDownload ==
    /\ mounted
    /\ EffectsFlushed
    /\ downloadClicks < MaxDownload
    /\ downloadClicks' = downloadClicks + 1
    /\ downloadPdf
    /\ UNCHANGED <<stateVars, effectUrl, isLoading, storeVars, revokeCount,
                   genVars, sendVars, mountVars, attachVars, exportVars>>

\* ---- send (sendPdfToOutlook, part_001 lines 169-207) ---------------------
\* a retry: the catch issues the request once more
fetchRejected_retry ==
    /\ EffectsFlushed
    /\ \E r \in sends :
          /\ r.stage = "request"
          /\ sends' = (sends \ {r}) \cup
                        {[id |-> fetchCount + 1, blob |-> r.blob, stage |-> "request"]}
          /\ fetchCount' = fetchCount + 1
    /\ notify' = NotifySendFailed
    /\ UNCHANGED <<stateVars, effectUrl, isLoading, urlVars, genVars,
                   sendAccepted, sentOk, downloadVars, mountVars, attachVars, exportVars>>

\* lines 170-184: without a Blob the function returns; otherwise it builds the
\* FormData around pdfBlob and issues one fetch
sendPdfToOutlook ==
    /\ pdfBlob # Null
    /\ sendAccepted < MaxSend
    /\ sendAccepted' = sendAccepted + 1
    /\ fetchCount' = fetchCount + 1
    /\ sends' = sends \cup
                  {[id |-> fetchCount + 1, blob |-> pdfBlob, stage |-> "request"]}
    /\ UNCHANGED <<notify, stateVars, effectUrl, isLoading, urlVars, genVars,
                   sentOk, downloadVars, mountVars, attachVars, exportVars>>

\* the Send button of DocumentPreview: disabled={!pdfPreviewUrl || isLoading}
onSend ==
    /\ mounted
    /\ EffectsFlushed
    /\ pdfPreviewUrl # Null
    /\ ~isLoading
    /\ sendPdfToOutlook

\* router.post("/send-outlook-mail"), lines 273-315: token, Graph post and
\* 200, or any throw and 500
sendOutlookMailRoute ==
    /\ EffectsFlushed
    /\ \E r \in sends, posted \in BOOLEAN :
          /\ r.stage = "request"
          /\ sends' = (sends \ {r}) \cup
                        {[r EXCEPT !.stage = IF posted THEN "200" ELSE "500"]}
    /\ UNCHANGED <<stateVars, effectUrl, isLoading, storeVars, urlVars, genVars,
                   sendAccepted, fetchCount, sentOk, downloadVars,
                   mountVars, attachVars, exportVars>>

\* lines 181-193 and 203-205: fetch resolved, with whatever status the route
\* gave; the status is not read
fetchResolved ==
    /\ EffectsFlushed
    /\ \E r \in sends :
          /\ r.stage \in {"200", "500"}
          /\ sends' = sends \ {r}
          /\ sentOk' = (sentOk \/ (r.stage = "200" /\ r.blob = pdfBlob))
    /\ notify' = NotifySent
    /\ UNCHANGED <<stateVars, effectUrl, isLoading, urlVars, genVars,
                   sendAccepted, fetchCount, downloadVars,
                   mountVars, attachVars, exportVars>>

\* lines 194-205: fetch rejected (the request did not reach the route)
fetchRejected ==
    /\ EffectsFlushed
    /\ \E r \in sends :
          /\ r.stage = "request"
          /\ sends' = sends \ {r}
    /\ notify' = NotifySendFailed
    /\ UNCHANGED <<stateVars, effectUrl, isLoading, urlVars, genVars,
                   sendAccepted, fetchCount, sentOk, downloadVars,
                   mountVars, attachVars, exportVars>>

\* ---- the preview flow ----------------------------------------------------
Next ==
    \/ generateResolved
    \/ generateRejected
    \/ commitEffect
    \/ onGenerate
    \/ onDownload
    \/ onSend
    \/ sendOutlookMailRoute
    \/ fetchResolved
    \/ fetchRejected
    \/ unmount
    \/ mount
    \/ setIsLoading

Spec == Init /\ [][Next]_vars

\* ---- the attachment flow (NodeMailerSetup.md) ----------------------------
WordType == "application/vnd.openxmlformats-officedocument.wordprocessingml.document"
PptType == "application/vnd.openxmlformats-officedocument.presentationml.presentation"
ExcelType == "application/vnd.openxmlformats-officedocument.spreadsheetml.sheet"
PdfType == "application/pdf"

\* the values of the `type` argument of generateDocument
DocumentTypes == {"pdf", "docx"}

\* new File([...], `${name}<ext>`, {type}) as each function builds it; the
\* name is modelled by its extension. generateDocument names the file .pdf
\* and types it application/pdf whatever documentType it asked for.
fileOf(b) ==
    [name |-> CASE b.fn = "generateWord" -> ".docx"
                [] b.fn = "generateSharePPT" -> ".pptx"
                [] b.fn = "generateExcel" -> ".xlsx"
                [] b.fn = "generateDocument" -> ".pdf",
     type |-> CASE b.fn = "generateWord" -> WordType
                [] b.fn = "generateSharePPT" -> PptType
                [] b.fn = "generateExcel" -> ExcelType
                [] b.fn = "generateDocument" -> PdfType,
     build |-> b.id]

\* the CALL_NOTIFY each function dispatches after setSelectedFile;
\* generateSharePPT returns the file and dispatches nothing
notifyBuilt(b, n) ==
    CASE b.fn = "generateWord" ->
            [type |-> "SUCCESS", msg |-> "Word document generated successfully!"]
      [] b.fn = "generateSharePPT" -> n
      [] b.fn = "generateExcel" ->
            [type |-> "SUCCESS", msg |-> "Excel generated and ready for email!"]
      [] b.fn = "generateDocument" ->
            [type |-> "SUCCESS", msg |-> "PDF generated and ready to send via email!"]

\* the CALL_NOTIFY of each function's catch
notifyBuildFailed(b) ==
    CASE b.fn = "generateWord" ->
            [type |-> "ERROR", msg |-> "Unable to generate Word document"]
      [] b.fn = "generateSharePPT" ->
            [type |-> "ERROR", msg |-> "Unable to generate PPT! Please check your internet"]
      [] b.fn = "generateExcel" ->
            [type |-> "ERROR", msg |-> "Excel generation failed"]
      [] b.fn = "generateDocument" ->
            [type |-> "ERROR", msg |-> "Unable to generate PDF"]

\* a generate function runs to its first await; none of the four reads or
\* clears selectedFile, and none tests whether another one is running
startBuild(fn, documentType) ==
    /\ buildCalls' = buildCalls + 1
    /\ builds' = builds \cup
                   {[id |-> buildCalls + 1, fn |-> fn, documentType |-> documentType]}
    /\ UNCHANGED <<selectedFile, lastBuild, mails, mailCalls, notify, previewVars, exportVars>>

\* lines 454-464
generateWord ==
    /\ buildCalls < MaxBuild
    /\ startBuild("generateWord", "docx")

\* lines 523-545
generateSharePPT ==
    /\ buildCalls < MaxBuild
    /\ startBuild("generateSharePPT", "pptx")

\* lines 622-643
generateExcel ==
    /\ buildCalls < MaxBuild
    /\ startBuild("generateExcel", "excel")

\* lines 836-848: generateDocument(type = "pdf")
generateDocumentFile ==
    /\ buildCalls < MaxBuild
    /\ \E t \in DocumentTypes : startBuild("generateDocument", t)

\* the try block ran to its end: the File is built and stored
\* (lines 470-504, 587-602, 798-819, 850-870)
builderResolved ==
    \E b \in builds :
        /\ builds' = builds \ {b}
        /\ selectedFile' = fileOf(b)
        /\ lastBuild' = "ok"
        /\ notify' = notifyBuilt(b, notify)
        /\ UNCHANGED <<buildCalls, mails, mailCalls, previewVars, exportVars>>

\* something in the try block threw: the catch notifies and stores nothing
\* (lines 505-518, 604-617, 820-831, 871-882)
builderRejected ==
    \E b \in builds :
        /\ builds' = builds \ {b}
        /\ lastBuild' = "failed"
        /\ notify' = notifyBuildFailed(b)
        /\ UNCHANGED <<selectedFile, buildCalls, mails, mailCalls, previewVars, exportVars>>

\* sendMail, lines 41-53: appends selectedFile, whatever it is, and posts
sendMail ==
    /\ mailCalls < MaxMail
    /\ mailCalls' = mailCalls + 1
    /\ mails' = mails \cup
                  {[id |-> mailCalls + 1, file |-> selectedFile, stage |-> "request"]}
    /\ UNCHANGED <<selectedFile, builds, buildCalls, lastBuild, notify, previewVars, exportVars>>

\* app.post("/send-mail"), lines 136-178: sendMail always gives `to` and
\* `subject`, so the route hands the mail to the transporter, and answers 200
\* or, when the transporter throws, 500
sendMailRoute ==
    \E m \in mails, sent \in BOOLEAN :
        /\ m.stage = "request"
        /\ mails' = (mails \ {m}) \cup
                      {[m EXCEPT !.stage = IF sent THEN "200" ELSE "500"]}
        /\ UNCHANGED <<selectedFile, builds, buildCalls, lastBuild, mailCalls,
                       notify, previewVars, exportVars>>

\* the awaited axios.post settles: resolved on 200, rejected on 500 or when
\* the request did not reach the route; sendMail handles neither
axiosSettled ==
    \E m \in mails :
        /\ mails' = mails \ {m}
        /\ UNCHANGED <<selectedFile, builds, buildCalls, lastBuild, mailCalls,
                       notify, previewVars, exportVars>>

NextMail ==
    \/ builderResolved
    \/ builderRejected
    \/ generateWord
    \/ generateSharePPT
    \/ generateExcel
    \/ generateDocumentFile
    \/ sendMail
    \/ sendMailRoute
    \/ axiosSettled

SpecMail == Init /\ [][NextMail]_vars


\* ---- strings -------------------------------------------------------------
\* a string is the sequence of its characters
Digits == <<"0", "1", "2", "3", "4", "5", "6", "7", "8", "9">>

\* String(n) of a non-negative integer: its decimal digits, no leading zero
RECURSIVE String(_)
String(n) ==
    IF n < 10
    THEN <<Digits[n + 1]>>
    ELSE String(n \div 10) \o <<Digits[(n % 10) + 1]>>

\* s.padStart(targetLength, padString), padString of one character: the
\* string is returned as it is once it has the target length
RECURSIVE padStart(_, _, _)
padStart(s, targetLength, padString) ==
    IF Len(s) >= targetLength
    THEN s
    ELSE padStart(<<padString>> \o s, targetLength, padString)

\* ---- the formatters of generateExcel (lines 653-662) ---------------------
\* minutes taken from all the seconds, the hours not taken out
epochToHHMMSS_minutes(timems) ==
    LET sec == timems \div 1000
        h == padStart(String(sec \div 3600), 2, "0")
        m == padStart(String(sec \div 60), 2, "0")
        s == padStart(String(sec % 60), 2, "0")
    IN  h \o <<":">> \o m \o <<":">> \o s

\* hours wrapped at the day
epochToHHMMSS_wrap(timems) ==
    LET sec == timems \div 1000
        h == padStart(String((sec \div 3600) % 24), 2, "0")
        m == padStart(String((sec % 3600) \div 60), 2, "0")
        s == padStart(String(sec % 60), 2, "0")
    IN  h \o <<":">> \o m \o <<":">> \o s

\* lines 653-659; Math.floor of a non-negative quotient is \div
epochToHHMMSS(timems) ==
    LET sec == timems \div 1000
        h == padStart(String(sec \div 3600), 2, "0")
        m == padStart(String((sec % 3600) \div 60), 2, "0")
        s == padStart(String(sec % 60), 2, "0")
    IN  h \o <<":">> \o m \o <<":">> \o s

\* the same, with the seconds left as they are
epochToHHMMSSGraph_unpadded(timems) ==
    LET sec_num == timems \div 1000
        hours == sec_num \div 3600
        minutes == (sec_num - hours * 3600) \div 60
        seconds == sec_num - hours * 3600 - minutes * 60
        prefixed(n) == IF n < 10 THEN <<"0">> \o String(n) ELSE String(n)
    IN  prefixed(hours) \o <<":">> \o prefixed(minutes) \o <<":">> \o String(seconds)

\* epochToHHMMSS of MicrosoftGraph.md, lines 672-683: a part below 10 becomes
\* "0" + part, and the template literal prints the three parts
epochToHHMMSSGraph(timems) ==
    LET sec_num == timems \div 1000
        hours == sec_num \div 3600
        minutes == (sec_num - hours * 3600) \div 60
        seconds == sec_num - hours * 3600 - minutes * 60
        prefixed(n) == IF n < 10 THEN <<"0">> \o String(n) ELSE String(n)
    IN  prefixed(hours) \o <<":">> \o prefixed(minutes) \o <<":">> \o prefixed(seconds)

\* always three characters wide
singleToDouble_three(runs) == padStart(String(runs), 3, "0")

\* lines 661-662
singleToDouble(runs) == padStart(String(runs), 2, "0")

\* ---- the formatters called on their own ----------------------------------
MaxHours == 100       \* durations of up to MaxHours hours, 59 minutes, 59.999 s
MaxRuns == 150        \* run counts of up to MaxRuns

\* minutes and seconds at the ends of their range and around the padding
FieldSamples == {0, 1, 9, 10, 59}
MillisSamples == {0, 999}

\* parsedData.count.max_time, avg_time, min_time: milliseconds
DurationInputs ==
    {((h * 60 + m) * 60 + sec) * 1000 + ms :
        h \in 0 .. MaxHours, m \in FieldSamples, sec \in FieldSamples,
        ms \in MillisSamples}

\* parsedData.count.no_of_runs, and idx + 1 of a step
RunInputs == 0 .. MaxRuns

FmtCalls ==
    {[fn |-> "epochToHHMMSS", arg |-> t] : t \in DurationInputs}
        \cup {[fn |-> "singleToDouble", arg |-> n] : n \in RunInputs}
        \cup {[fn |-> "epochToHHMMSSGraph", arg |-> t] : t \in DurationInputs}

InitFmt ==
    /\ InitClient
    /\ NoVariant
    /\ ExcelIdle
    /\ RoutesIdle
    /\ WordIdle
    /\ FramesIdle
    /\ fmtCall \in FmtCalls
    /\ fmtResult = <<>>

\* lines 685, 686, 693: epochToHHMMSS(parsedData.count.max_time) and the like
callEpochToHHMMSS ==
    /\ fmtCall.fn = "epochToHHMMSS"
    /\ fmtResult = <<>>
    /\ fmtResult' = epochToHHMMSS(fmtCall.arg)
    /\ UNCHANGED <<fmtCall, notify, previewVars, appVars, attachVars, excelVars, routeVars>>

\* lines 692, 750, 763: singleToDouble(parsedData.count.no_of_runs), (idx + 1)
callSingleToDouble ==
    /\ fmtCall.fn = "singleToDouble"
    /\ fmtResult = <<>>
    /\ fmtResult' = singleToDouble(fmtCall.arg)
    /\ UNCHANGED <<fmtCall, notify, previewVars, appVars, attachVars, excelVars, routeVars>>

\* MicrosoftGraph.md lines 712, 713, 723: the same calls of the other version
callEpochToHHMMSSGraph ==
    /\ fmtCall.fn = "epochToHHMMSSGraph"
    /\ fmtResult = <<>>
    /\ fmtResult' = epochToHHMMSSGraph(fmtCall.arg)
    /\ UNCHANGED <<fmtCall, notify, previewVars, appVars, attachVars, excelVars, routeVars>>

NextFmt ==
    \/ callEpochToHHMMSS
    \/ callSingleToDouble
    \/ callEpochToHHMMSSGraph

SpecFmt == InitFmt /\ [][NextFmt]_vars


\* ---- generateExcel (NodeMailerSetup.md lines 622-832) --------------------
MaxSteps == 3         \* entries of parsedData.stepData

\* nodeData.screenshot: the key of a step's record in hashedTargetValue and
\* in parsedData.nodes
Keys == {"h1", "h2"}

\* nodeData.timestamp and _source.timestamp: epoch milliseconds
Times == {1000, 2000}

\* a field that is undefined or the empty string: falsy in `if (app1 && ...)`
Absent == ""

\* _source.appType and _source.apptype of an index record
AppPairs ==
    {<<Absent, Absent>>, <<"WEB", Absent>>, <<Absent, "SAP">>,
     <<"SAP", "WEB">>, <<"WEB", "WEB">>}

\* the base64 image of the record filed under key k
Payload(k) == <<"png", k>>

\* the records of the search index: elasticsearchFieldsData items, each filed
\* under one key in hashedTargetValue.current
IndexRecords ==
    {[key |-> k, timestamp |-> t, description |-> "shot", screenshot |-> Payload(k),
      appType |-> a[1], apptype |-> a[2]] :
        k \in Keys, t \in Times, a \in AppPairs}

\* index results: no two records under the same key
IndexResults ==
    {<<>>} \cup {<<r>> : r \in IndexRecords}
           \cup {p \in IndexRecords \X IndexRecords : p[1].key # p[2].key}

\* the entries of parsedData.stepData
StepNodes ==
    [screenshot : Keys, timestamp : Times, description : {"click"},
     translatedDescription : {"Klick"}]

StepLists == UNION {[1 .. n -> StepNodes] : n \in 0 .. MaxSteps}

\* parsedData.nodes: one node per key
SampleNodes ==
    [k \in Keys |->
        IF k = "h1"
        THEN [apptype |-> "SAP", xpath |-> "/shell/btn", timestamp |-> 1000,
              url |-> [type |-> "undefined", value |-> <<>>]]
        ELSE [apptype |-> "WEB", xpath |-> "//a", timestamp |-> 2000,
              url |-> [type |-> "string", value |-> <<"https://w/1">>]]]

\* parsedData.count
SampleCount ==
    [created_on |-> 1000, last_run_on |-> 2000, max_time |-> 3661000,
     avg_time |-> 61000, min_time |-> 0, coverage |-> "50", no_of_runs |-> 5]

InitExcel ==
    /\ InitClient
    /\ ExcelIdle
    /\ FmtIdle
    /\ RoutesIdle
    /\ WordIdle
    /\ FramesIdle
    /\ stepData \in StepLists
    /\ elasticData \in IndexResults
    /\ variantType \in {"variant", "translated"}
    /\ nodes = SampleNodes

\* lines 634-639: timeStampMap[item._source.timestamp] = {description,
\* screenshot}; a later item with the same timestamp replaces an earlier one
timeStampMap(items) ==
    [t \in {items[i].timestamp : i \in DOMAIN items} |->
        LET last == CHOOSE i \in DOMAIN items :
                        /\ items[i].timestamp = t
                        /\ \A j \in DOMAIN items : items[j].timestamp = t => j <= i
        IN  [description |-> items[last].description,
             screenshot |-> items[last].screenshot]]

\* hashedTargetValue.current[key]: the record filed under the key, if any
HasRecord(key) == \E i \in DOMAIN elasticData : elasticData[i].key = key
hashedTargetValue(key) ==
    elasticData[CHOOSE i \in DOMAIN elasticData : elasticData[i].key = key]

\* the first of the two fields that is set, and nothing else
stepAppTypes_either(nodeData) ==
    IF ~HasRecord(nodeData.screenshot)
    THEN <<Absent, Absent>>
    ELSE IF hashedTargetValue(nodeData.screenshot).appType # Absent
         THEN <<hashedTargetValue(nodeData.screenshot).appType, Absent>>
         ELSE <<hashedTargetValue(nodeData.screenshot).apptype, Absent>>

\* lines 667-670: app1 and app2 of a step, through the optional chaining
stepAppTypes(nodeData) ==
    IF HasRecord(nodeData.screenshot)
    THEN <<hashedTargetValue(nodeData.screenshot).appType,
           hashedTargetValue(nodeData.screenshot).apptype>>
    ELSE <<Absent, Absent>>

includes(arr, x) == \E i \in DOMAIN arr : arr[i] = x

\* lines 672-673
pushApps(arr, apps) ==
    LET one == IF apps[1] # Absent /\ ~includes(arr, apps[1])
               THEN Append(arr, apps[1]) ELSE arr
    IN  IF apps[2] # Absent /\ ~includes(one, apps[2])
        THEN Append(one, apps[2]) ELSE one

\* lines 664-674: the loop over the first n steps
RECURSIVE collectAppTypes(_, _)
collectAppTypes(steps, n) ==
    IF n = 0 THEN <<>>
    ELSE pushApps(collectAppTypes(steps, n - 1), stepAppTypes(steps[n]))

\* apptypes.join(): the elements with commas between them
RECURSIVE join(_)
join(arr) ==
    IF arr = <<>> THEN <<>>
    ELSE IF Len(arr) = 1 THEN <<arr[1]>>
    ELSE join(SubSeq(arr, 1, Len(arr) - 1)) \o <<",", arr[Len(arr)]>>

\* new Date(ms).toString(), and .slice(0, -34) of it
DateToString(ms) == <<"Date", ms>>
DateSlice(ms) == <<"Date", ms, "slice(0, -34)">>

\* the metadata rows without the last one
arrData_short(apps, count) ==
    <<<<"Process name", "name">>,
      <<"Process description", "description">>,
      <<"Variant Name", "variant">>,
      <<"Apps involved", join(apps)>>,
      <<"Variant Created On", DateSlice(count.created_on)>>,
      <<"Variant Max time", epochToHHMMSS(count.max_time)>>,
      <<"Variant Average Time", epochToHHMMSS(count.avg_time)>>,
      <<"Variant Coverage", count.coverage>>,
      <<"Variant Last run on", DateSlice(count.last_run_on)>>,
      <<"Variant Number of runs", singleToDouble(count.no_of_runs)>>>>

\* lines 676-694
arrData(apps, count) ==
    <<<<"Process name", "name">>,
      <<"Process description", "description">>,
      <<"Variant Name", "variant">>,
      <<"Apps involved", join(apps)>>,
      <<"Variant Created On", DateSlice(count.created_on)>>,
      <<"Variant Max time", epochToHHMMSS(count.max_time)>>,
      <<"Variant Average Time", epochToHHMMSS(count.avg_time)>>,
      <<"Variant Coverage", count.coverage>>,
      <<"Variant Last run on", DateSlice(count.last_run_on)>>,
      <<"Variant Number of runs", singleToDouble(count.no_of_runs)>>,
      <<"Variant Min time", epochToHHMMSS(count.min_time)>>>>

\* lines 711-730: the headers of the Steps sheet, which make its first row
stepColumns(type) ==
    IF type = "variant"
    THEN <<"Step no", "Description", "Image", "Xpath", "Timestamp", "URL">>
    ELSE <<"Step no", "Detailed description", "Translated description",
           "Image", "Xpath", "Timestamp", "URL">>

\* the first URL of any step that has one, whatever its application type
stepUrl_anyType(node) ==
    IF /\ node.url.type # "undefined"
       /\ node.url.value # <<>>
       /\ node.url.value[1] # Absent
    THEN node.url.value[1]
    ELSE ""

\* lines 736-746: the URL cell
stepUrl(node) ==
    IF /\ node.url.type # "undefined"
       /\ node.url.value # <<>>
       /\ node.url.value[1] # Absent
       /\ node.apptype \notin {"SAP", "EXCEL", "OUTLOOK"}
    THEN node.url.value[1]
    ELSE ""

\* the cells of the plain-variant row in both modes
stepRow_sixCells(type, nodeData, node, idx) ==
    LET xpath == IF node.apptype = "SAP" THEN node.xpath ELSE ""
    IN  <<singleToDouble(idx + 1), nodeData.description, "", xpath,
          DateToString(node.timestamp), stepUrl(node)>>

\* the locator of every step, whatever its application type
stepRow_anyXpath(type, nodeData, node, idx) ==
    IF type = "variant"
    THEN <<singleToDouble(idx + 1), nodeData.description, "", node.xpath,
           DateToString(node.timestamp), stepUrl(node)>>
    ELSE <<singleToDouble(idx + 1), nodeData.description,
           nodeData.translatedDescription, "", node.xpath,
           DateToString(node.timestamp), stepUrl(node)>>

\* lines 748-775: the cells of the row of step idx (0-based)
stepRow(type, nodeData, node, idx) ==
    LET xpath == IF node.apptype = "SAP" THEN node.xpath ELSE ""
    IN  IF type = "variant"
        THEN <<singleToDouble(idx + 1), nodeData.description, "", xpath,
               DateToString(node.timestamp), stepUrl(node)>>
        ELSE <<singleToDouble(idx + 1), nodeData.description,
               nodeData.translatedDescription, "", xpath,
               DateToString(node.timestamp), stepUrl(node)>>

\* the worksheets by name
metaSheet == workbook.sheets[1]
stepSheet == workbook.sheets[2]

\* steps whose row has been added: the index of the next forEach iteration
idx == Len(stepSheet.rows) - 1

\* lines 622-643: "Loading...", parsedData, timeStampMap, and the await of
\* ProcessService.get
excelLoading ==
    /\ excelStage = "idle"
    /\ excelStage' = "awaiting"
    /\ UNCHANGED <<excelInputs, apptypes, workbook, caught, notify, previewVars, appVars,
                   attachVars, fmtVars, routeVars>>

\* lines 641-643 and 820-831: the awaited request rejected
excelGetRejected ==
    /\ excelStage = "awaiting"
    /\ excelStage' = "failed"
    /\ caught' = [kind |-> "RequestError"]
    /\ notify' = notifyBuildFailed([fn |-> "generateExcel"])
    /\ UNCHANGED <<excelInputs, apptypes, workbook, previewVars, appVars, attachVars,
                   fmtVars, routeVars>>

\* lines 645-732: the workbook, the metadata sheet with its rows, and the
\* Steps sheet with its header row
excelSheets ==
    /\ excelStage = "awaiting"
    /\ excelStage' = "steps"
    /\ apptypes' = collectAppTypes(stepData, Len(stepData))
    /\ workbook' =
          [NoWorkbook EXCEPT !.sheets =
              <<[name |-> "Variant Metadata", rows |-> arrData(apptypes', SampleCount)],
                [name |-> "Steps", rows |-> <<stepColumns(variantType)>>]>>]
    /\ UNCHANGED <<excelInputs, caught, notify, previewVars, appVars, attachVars,
                   fmtVars, routeVars>>

\* lines 749-775: stepSheet.addRow of the step at idx
addStepRow(wb) ==
    [wb EXCEPT !.sheets[2].rows =
        Append(@, stepRow(variantType, stepData[idx + 1],
                          nodes[stepData[idx + 1].screenshot], idx))]

\* lines 734-792, one iteration: the row, then the image of the record that
\* timeStampMap holds for the step's timestamp, anchored in the image column
excelStepRow ==
    /\ excelStage = "steps"
    /\ idx < Len(stepData)
    /\ stepData[idx + 1].timestamp \in DOMAIN timeStampMap(elasticData)
    /\ workbook' =
          [addStepRow(workbook) EXCEPT
              !.media = Append(@, timeStampMap(elasticData)[stepData[idx + 1].timestamp].screenshot),
              !.anchors = Append(@, [imageId |-> Len(workbook.media) + 1,
                                     col |-> IF variantType = "variant" THEN 2 ELSE 3,
                                     row |-> idx + 1])]
    /\ UNCHANGED <<excelInputs, excelStage, apptypes, caught, notify,
                   previewVars, appVars, attachVars, fmtVars, routeVars>>

\* lines 734-778 and 820-831: timeStampMap has nothing for the step's
\* timestamp; the row is added, reading .screenshot of undefined throws a
\* TypeError, and the catch reports "Excel generation failed"
excelStepThrows ==
    /\ excelStage = "steps"
    /\ idx < Len(stepData)
    /\ stepData[idx + 1].timestamp \notin DOMAIN timeStampMap(elasticData)
    /\ workbook' = addStepRow(workbook)
    /\ excelStage' = "failed"
    /\ caught' = [kind |-> "TypeError"]
    /\ notify' = notifyBuildFailed([fn |-> "generateExcel"])
    /\ UNCHANGED <<excelInputs, apptypes, previewVars, appVars, attachVars, fmtVars,
                   routeVars>>

\* lines 798-819: writeBuffer, the File, setSelectedFile, and the success
\* notification
excelFinalize ==
    /\ excelStage = "steps"
    /\ idx = Len(stepData)
    /\ excelStage' = "done"
    /\ selectedFile' = fileOf([fn |-> "generateExcel", id |-> 1])
    /\ notify' = notifyBuilt([fn |-> "generateExcel"], notify)
    /\ UNCHANGED <<excelInputs, apptypes, workbook, caught, builds, buildCalls,
                   lastBuild, mails, mailCalls, previewVars, appVars, fmtVars, routeVars>>

NextExcel ==
    \/ excelLoading
    \/ excelGetRejected
    \/ excelSheets
    \/ excelStepRow
    \/ excelStepThrows
    \/ excelFinalize

SpecExcel == InitExcel /\ [][NextExcel]_vars


\* ---- the server routes ---------------------------------------------------
\* A form field is a string, written as the sequence of its parts: addresses,
\* commas and blanks. A field that is not sent, or sent empty, is falsy.
Missing == <<>>

\* the values a client may give the fields; the non-empty ones are those of
\* sendMail (NodeMailerSetup.md lines 44-47)
ToValues ==
    {Missing, <<"user1@outlook.com">>,
     <<"user1@outlook.com", ",", "user2@gmail.com">>}
CcValues == {Missing, <<"manager@outlook.com">>}
SubjectValues == {Missing, <<"Project Documents">>}
BodyValue == <<"Please find the attached document.">>

\* req.file of upload.single("file"): undefined without a file part
NoUpload == [originalname |-> "", mimetype |-> "", buffer |-> 0]
Upload == [originalname |-> "variant.pdf", mimetype |-> "application/pdf", buffer |-> 1]

MailRequests(route) ==
    {[route |-> route, to |-> to, cc |-> cc, subject |-> subject,
      body |-> BodyValue, file |-> file, email |-> Missing] :
        to \in ToValues, cc \in CcValues, subject \in SubjectValues,
        file \in {NoUpload, Upload}}

\* req.query.email of GET /userinDB
EmailQueries ==
    {Missing, <<" ">>, <<"ann@corp.com">>, <<" ", "ann@corp.com">>,
     <<"ann@corp.com", " ">>, <<"bob@corp.com">>, <<"eve@corp.com">>}

UserRequests ==
    {[route |-> "/userinDB", to |-> Missing, cc |-> Missing, subject |-> Missing,
      body |-> Missing, file |-> NoUpload, email |-> e] : e \in EmailQueries}

\* the rows of the User table
UserTables ==
    {<<>>,
     <<[id |-> 1, email |-> <<"ann@corp.com">>]>>,
     <<[id |-> 1, email |-> <<"bob@corp.com">>],
       [id |-> 2, email |-> <<"ann@corp.com">>],
       [id |-> 3, email |-> <<"ann@corp.com">>]>>}

\* s.split(","): the parts between the commas
RECURSIVE split(_)
split(s) ==
    IF s = <<>> THEN <<>>
    ELSE IF s[1] = "," THEN split(Tail(s))
    ELSE <<s[1]>> \o split(Tail(s))

\* s.trim(): without the blanks at either end
RECURSIVE trim(_)
trim(s) ==
    IF s = <<>> THEN s
    ELSE IF s[1] = " " THEN trim(Tail(s))
    ELSE IF s[Len(s)] = " " THEN trim(SubSeq(s, 1, Len(s) - 1))
    ELSE s

\* userRepository.find({where: {email}}): the matching rows, in table order
find(table, email) == SelectSeq(table, LAMBDA u : u.email = email)

\* a route handler can take the request: none is being handled
Listening == httpReq.route = "none" \/ httpRes # <<>>

\* a request reaches app.post("/send-mail", upload.single("file"), ...)
postSendMail ==
    /\ Listening
    /\ httpReq' \in MailRequests("/send-mail")
    /\ httpRes' = <<>>
    /\ outbox' = <<>>
    /\ lookup' = "none"
    /\ UNCHANGED <<userTable, notify, previewVars, appVars, attachVars, excelVars, fmtVars>>

\* a request reaches router.post("/send-outlook-mail", upload.single("file"), ...)
postSendOutlookMail ==
    /\ Listening
    /\ httpReq' \in MailRequests("/send-outlook-mail")
    /\ httpRes' = <<>>
    /\ outbox' = <<>>
    /\ lookup' = "none"
    /\ UNCHANGED <<userTable, notify, previewVars, appVars, attachVars, excelVars, fmtVars>>

\* a request reaches app.get("/userinDB", ...)
getUserInDB ==
    /\ Listening
    /\ httpReq' \in UserRequests
    /\ httpRes' = <<>>
    /\ outbox' = <<>>
    /\ lookup' = "none"
    /\ UNCHANGED <<userTable, notify, previewVars, appVars, attachVars, excelVars, fmtVars>>

\* NodeMailerSetup.md lines 149-164
mailOptions(req) ==
    [to |-> split(req.to),
     cc |-> IF req.cc # Missing THEN split(req.cc) ELSE Missing,
     subject |-> req.subject,
     text |-> req.body,
     attachments |->
        IF req.file # NoUpload
        THEN <<[filename |-> req.file.originalname, content |-> req.file.buffer,
                contentType |-> req.file.mimetype]>>
        ELSE <<>>]

\* NodeMailerSetup.md lines 136-178: 400 without `to` or `subject`; otherwise
\* the mail is handed to transporter.sendMail, and the answer is 200, or 500
\* when the transporter throws
sendMailHandler ==
    /\ httpReq.route = "/send-mail"
    /\ httpRes = <<>>
    /\ IF httpReq.to = Missing \/ httpReq.subject = Missing
       THEN /\ httpRes' = <<[status |-> 400, body |-> "Recipient and subject are required"]>>
            /\ UNCHANGED outbox
       ELSE /\ outbox' = Append(outbox, mailOptions(httpReq))
            /\ \E delivered \in BOOLEAN :
                  httpRes' = IF delivered
                             THEN <<[status |-> 200, body |-> "Mail sent successfully"]>>
                             ELSE <<[status |-> 500, body |-> "Failed to send mail"]>>
    /\ UNCHANGED <<httpReq, userTable, lookup, notify, previewVars, appVars, attachVars,
                   excelVars, fmtVars>>

\* part_001 lines 287-307: the message posted to Graph
graphMessage(req) ==
    [to |-> <<req.to>>,
     cc |-> Missing,
     subject |-> req.subject,
     text |-> req.body,
     attachments |->
        <<[filename |-> req.file.originalname, content |-> req.file.buffer,
           contentType |-> "#microsoft.graph.fileAttachment"]>>]

\* part_001 lines 273-315: no field is tested. getAccessToken may throw;
\* without a file part req.file is undefined and reading file.originalname
\* throws before the post; otherwise the message is posted to Graph. Any throw
\* is answered 500, the rest 200.
sendOutlookMailHandler ==
    /\ httpReq.route = "/send-outlook-mail"
    /\ httpRes = <<>>
    /\ \E token \in BOOLEAN, posted \in BOOLEAN :
          IF ~token \/ httpReq.file = NoUpload
          THEN /\ httpRes' = <<[status |-> 500, body |-> "Failed to send mail"]>>
               /\ UNCHANGED outbox
          ELSE /\ outbox' = Append(outbox, graphMessage(httpReq))
               /\ httpRes' = IF posted
                             THEN <<[status |-> 200, body |-> "Mail sent"]>>
                             ELSE <<[status |-> 500, body |-> "Failed to send mail"]>>
    /\ UNCHANGED <<httpReq, userTable, lookup, notify, previewVars, appVars, attachVars,
                   excelVars, fmtVars>>

\* res.status(code).json(body): one response is sent
json(res, code, body) == Append(res, [status |-> code, body |-> body])

\* part_000 lines 85-89, for the rows the repository returned
userLookup(res, record) ==
    IF Len(record) = 0
    THEN json(res, 404, "User not found")
    ELSE json(res, 200, [data |-> record[1]])

\* the 400 is sent and the handler goes on to the lookup
userInDB_noReturn(req, table, throws) ==
    LET first == IF req.email = Missing
                 THEN json(<<>>, 400, "Email query required") ELSE <<>>
    IN  IF throws
        THEN json(first, 500, "Internal Server Error")
        ELSE userLookup(first, find(table, trim(req.email)))

\* part_000 lines 73-94: the responses the handler sends, given the User
\* table and whether the lookup throws
userInDB(req, table, throws) ==
    IF req.email = Missing
    THEN json(<<>>, 400, "Email query required")
    ELSE IF throws
         THEN json(<<>>, 500, "Internal Server Error")
         ELSE userLookup(<<>>, find(table, trim(req.email)))

userInDBHandler ==
    /\ httpReq.route = "/userinDB"
    /\ httpRes = <<>>
    /\ \E throws \in BOOLEAN :
          /\ httpRes' = userInDB(httpReq, userTable, throws)
          /\ lookup' = IF httpReq.email = Missing THEN "none"
                       ELSE IF throws THEN "threw" ELSE "returned"
    /\ UNCHANGED <<httpReq, outbox, userTable, notify, previewVars, appVars, attachVars,
                   excelVars, fmtVars>>

NextRoutes ==
    \/ sendMailHandler
    \/ sendOutlookMailHandler
    \/ userInDBHandler
    \/ postSendMail
    \/ postSendOutlookMail
    \/ getUserInDB

\* the servers are up; the User table holds whatever was stored in it
InitRoutes ==
    /\ InitClient
    /\ NoVariant
    /\ ExcelIdle
    /\ FmtIdle
    /\ WordIdle
    /\ FramesIdle
    /\ httpReq = NoRequest
    /\ httpRes = <<>>
    /\ outbox = <<>>
    /\ lookup = "none"
    /\ userTable \in UserTables

SpecRoutes == InitRoutes /\ [][NextRoutes]_vars


\* ---- generateWord, step by step ------------------------------------------
\* NodeMailerSetup.md lines 454-519 and MicrosoftGraph.md lines 468-513
MaxWord == 4          \* calls of generateWord

\* the repository has two generateWord functions
WordSources == {"NodeMailerSetup.md", "MicrosoftGraph.md"}

\* what `await VariantWordDoc([...])` resolves to: a document, or nothing
Document == "document"
Undefined == "undefined"

\* the CALL_NOTIFY after setSelectedFile (NodeMailerSetup.md lines 495-502,
\* MicrosoftGraph.md lines 490-497)
wordGenerated(source) ==
    IF source = "NodeMailerSetup.md"
    THEN [type |-> "SUCCESS", msg |-> "Word document generated successfully!"]
    ELSE [type |-> "SUCCESS", msg |-> "Word generated and ready to send via email!"]

\* the CALL_NOTIFY of the catch (NodeMailerSetup.md lines 505-518,
\* MicrosoftGraph.md lines 501-512)
wordFailed(source) ==
    IF source = "NodeMailerSetup.md"
    THEN [type |-> "ERROR", msg |-> "Unable to generate Word document"]
    ELSE [type |-> "ERROR", msg |-> "Unable to generate document"]

InitWord ==
    /\ InitClient
    /\ NoVariant
    /\ ExcelIdle
    /\ FmtIdle
    /\ RoutesIdle
    /\ FramesIdle
    /\ wordSource \in WordSources
    /\ wordStage = "idle"
    /\ doc = "pending"
    /\ packerCalls = 0
    /\ wordCalls = 0

\* the function is called and runs to `await VariantWordDoc([...])`
\* (NodeMailerSetup.md lines 454-464, MicrosoftGraph.md lines 468-475)
wordLoading ==
    /\ wordStage \in {"idle", "done", "failed"}
    /\ wordCalls < MaxWord
    /\ wordCalls' = wordCalls + 1
    /\ wordStage' = "assembling"
    /\ doc' = "pending"
    /\ packerCalls' = 0
    /\ UNCHANGED <<wordSource, notify, previewVars, attachVars, excelVars,
                   fmtVars, routeVars, frameVars>>

\* VariantWordDoc rejects: the catch notifies
wordAssemblyRejected ==
    /\ wordStage = "assembling"
    /\ wordStage' = "failed"
    /\ notify' = wordFailed(wordSource)
    /\ UNCHANGED <<wordSource, doc, packerCalls, wordCalls, previewVars,
                   attachVars, excelVars, fmtVars, routeVars, frameVars>>

\* VariantWordDoc resolves. NodeMailerSetup.md lines 466-471: without a
\* document, throw "Document generation failed", which the catch reports;
\* with one, await Packer.toBuffer(doc). MicrosoftGraph.md line 477: await
\* Packer.toBlob(doc), whatever doc is.
wordAssembled ==
    /\ wordStage = "assembling"
    /\ \E d \in {Document, Undefined} :
          /\ doc' = d
          /\ IF d = Undefined /\ wordSource = "NodeMailerSetup.md"
             THEN /\ wordStage' = "failed"
                  /\ notify' = wordFailed(wordSource)
                  /\ UNCHANGED packerCalls
             ELSE /\ wordStage' = "packing"
                  /\ packerCalls' = packerCalls + 1
                  /\ UNCHANGED notify
    /\ UNCHANGED <<wordSource, wordCalls, previewVars, attachVars, excelVars,
                   fmtVars, routeVars, frameVars>>

\* Packer resolves: the File is built and stored, and the success notified
\* (NodeMailerSetup.md lines 474-504, MicrosoftGraph.md lines 480-499)
wordPacked ==
    /\ wordStage = "packing"
    /\ doc = Document
    /\ wordStage' = "done"
    /\ selectedFile' = fileOf([fn |-> "generateWord", id |-> wordCalls])
    /\ notify' = wordGenerated(wordSource)
    /\ UNCHANGED <<wordSource, doc, packerCalls, wordCalls, builds, buildCalls,
                   lastBuild, mails, mailCalls, previewVars, excelVars, fmtVars,
                   routeVars, frameVars>>

\* Packer rejects, as it does when it is given no document, whose parts it
\* reads: the catch notifies
wordPackerRejected ==
    /\ wordStage = "packing"
    /\ wordStage' = "failed"
    /\ notify' = wordFailed(wordSource)
    /\ UNCHANGED <<wordSource, doc, packerCalls, wordCalls, previewVars,
                   attachVars, excelVars, fmtVars, routeVars, frameVars>>

NextWord ==
    \/ wordLoading
    \/ wordAssemblyRejected
    \/ wordAssembled
    \/ wordPacked
    \/ wordPackerRejected

SpecWord == InitWord /\ [][NextWord]_vars


\* ---- generateExcel over the nodes of a variant ----------------------------
MaxRows == 4          \* entries of parsedData.stepData

\* parsedData.nodes[key].apptype: the three types line 742 names, and WEB for
\* every other one
AppTypes == {"SAP", "EXCEL", "OUTLOOK", "WEB"}

\* the keys of the nodes, one node per application type
RowKeys == {"k1", "k2", "k3", "k4"}

AppOf(k) ==
    CASE k = "k1" -> "SAP" [] k = "k2" -> "EXCEL" [] k = "k3" -> "OUTLOOK"
      [] k = "k4" -> "WEB"

\* the timestamp of the node and of the record under key k
TimeOf(k) ==
    CASE k = "k1" -> 1000 [] k = "k2" -> 2000 [] k = "k3" -> 3000
      [] k = "k4" -> 4000

\* parsedData.nodes[key].url: not set, an array of URLs, or the JSON text of
\* one (line 738 parses it)
UrlValues ==
    {[type |-> "undefined", value |-> <<>>],
     [type |-> "object", value |-> <<>>],
     [type |-> "object", value |-> <<"">>],
     [type |-> "object", value |-> <<"https://w/1", "https://w/2">>],
     [type |-> "string", value |-> <<"https://w/3">>]}

\* parsedData.nodes[key].xpath
XpathValues == {"", "//btn"}

\* parsedData.nodes
NodeTables ==
    {[k \in RowKeys |->
         [apptype |-> AppOf(k), xpath |-> x, timestamp |-> TimeOf(k), url |-> u]] :
        u \in UrlValues, x \in XpathValues}

\* the entry of parsedData.stepData recorded on the node of key k
RowStep(k) ==
    [screenshot |-> k, timestamp |-> TimeOf(k), description |-> "click",
     translatedDescription |-> "Klick"]

RowSteps ==
    UNION {[1 .. n -> {RowStep(k) : k \in RowKeys}] : n \in 0 .. MaxRows}

\* the index record of the screenshot of key k
RowRecord(k) ==
    [key |-> k, timestamp |-> TimeOf(k), description |-> "shot",
     screenshot |-> Payload(k), appType |-> AppOf(k), apptype |-> Absent]

\* the index with a record for every key but `without`
RowIndex(without) ==
    SelectSeq(<<RowRecord("k1"), RowRecord("k2"), RowRecord("k3"), RowRecord("k4")>>,
              LAMBDA r : r.key # without)

InitRows ==
    /\ InitClient
    /\ ExcelIdle
    /\ FmtIdle
    /\ RoutesIdle
    /\ WordIdle
    /\ FramesIdle
    /\ stepData \in RowSteps
    /\ elasticData \in {RowIndex(k) : k \in RowKeys \cup {"none"}}
    /\ variantType \in {"variant", "translated"}
    /\ nodes \in NodeTables

SpecRows == InitRows /\ [][NextExcel]_vars


\* ---- the frame-extraction client (src/Client/src/App.tsx) ----------------
MaxExtract == 2       \* calls of handleExtractFrames that start an upload
MaxFrames == 2        \* frames in a response of /upload

\* s.startsWith(prefix)
startsWith(s, prefix) ==
    Len(s) >= Len(prefix) /\ SubSeq(s, 1, Len(prefix)) = prefix

\* the files the user picks: two videos and a file that is no video
Files ==
    {[name |-> "a.mp4", type |-> <<"video/", "mp4">>],
     [name |-> "b.webm", type |-> <<"video/", "webm">>],
     [name |-> "notes.txt", type |-> <<"text/", "plain">>]}

\* lines 197-201: the options of the fps select
FpsOptions == {1, 5, 10, 24, 30}

\* Math.round((loaded * 100) / total) of a progress event
ProgressSamples == {50, 100}

\* { stage: "idle", progress: 0, message: "" }
IdleStatus == [stage |-> "idle", progress |-> 0, message |-> ""]

\* (index / fps).toFixed(2): the quotient rounded to hundredths, printed with
\* two decimals
toFixed2(index, perSecond) ==
    LET hundredths == (index * 200 + perSecond) \div (2 * perSecond)
    IN  String(hundredths \div 100) \o <<".">>
            \o padStart(String(hundredths % 100), 2, "0")

\* lines 103-109: the frames of a response with n URLs, for the upload u
mapFrames(u, n) ==
    [i \in 1 .. n |->
        [id |-> i,
         url |-> [base |-> "VITE_BACKEND_URL", upload |-> u.file.name, frame |-> i],
         timestamp |-> toFixed2(i - 1, u.fps)]]

InitFrames ==
    /\ InitClient
    /\ NoVariant
    /\ ExcelIdle
    /\ FmtIdle
    /\ RoutesIdle
    /\ WordIdle
    /\ FramesIdle

\* lines 44-52: handleFileSelect(file); a file that is no video is refused
\* with an alert and nothing is set
handleFileSelect(file) ==
    IF startsWith(file.type, <<"video/">>)
    THEN /\ selectedFile' = file
         /\ extractedFrames' = <<>>
         /\ processingStatus' = IdleStatus
    ELSE UNCHANGED <<selectedFile, extractedFrames, processingStatus>>

\* lines 164-172: the file input changes
onChange ==
    /\ \E file \in Files : handleFileSelect(file)
    /\ UNCHANGED <<fps, isProcessing, isDragOver, uploads, extractCalls, builds,
                   buildCalls, lastBuild, mails, mailCalls, notify, previewVars,
                   excelVars, fmtVars, routeVars, wordVars>>

\* lines 60-66: a file is dropped on the upload section
handleDrop ==
    /\ isDragOver' = FALSE
    /\ \E file \in Files : handleFileSelect(file)
    /\ UNCHANGED <<fps, isProcessing, uploads, extractCalls, builds, buildCalls,
                   lastBuild, mails, mailCalls, notify, previewVars, excelVars,
                   fmtVars, routeVars, wordVars>>

\* lines 149-153: onDragOver and onDragLeave
onDrag ==
    /\ isDragOver' = ~isDragOver
    /\ UNCHANGED <<fps, isProcessing, processingStatus, extractedFrames, uploads,
                   extractCalls, attachVars, notify, previewVars, excelVars,
                   fmtVars, routeVars, wordVars>>

\* lines 54-58 and 174-179: the Remove button, rendered when a file is selected
handleRemoveFile ==
    /\ selectedFile # NoFile
    /\ selectedFile' = NoFile
    /\ extractedFrames' = <<>>
    /\ processingStatus' = IdleStatus
    /\ UNCHANGED <<fps, isProcessing, isDragOver, uploads, extractCalls, builds,
                   buildCalls, lastBuild, mails, mailCalls, notify, previewVars,
                   excelVars, fmtVars, routeVars, wordVars>>

\* lines 191-202: the fps select
setFps ==
    /\ \E value \in FpsOptions : value # fps /\ fps' = value
    /\ UNCHANGED <<isProcessing, processingStatus, extractedFrames, isDragOver,
                   uploads, extractCalls, attachVars, notify, previewVars,
                   excelVars, fmtVars, routeVars, wordVars>>

\* the button is enabled whether or not an extraction is running
extractDisabled_fileOnly == selectedFile = NoFile

\* lines 209-212: disabled={!selectedFile || isProcessing}
extractDisabled == selectedFile = NoFile \/ isProcessing

\* lines 68-98: the Extract Frames button: handleExtractFrames to its await
handleExtractFrames ==
    /\ ~extractDisabled
    /\ selectedFile # NoFile
    /\ extractCalls < MaxExtract
    /\ extractCalls' = extractCalls + 1
    /\ isProcessing' = TRUE
    /\ uploads' = uploads \cup
                    {[id |-> extractCalls + 1, file |-> selectedFile, fps |-> fps]}
    /\ UNCHANGED <<fps, processingStatus, extractedFrames, isDragOver, attachVars,
                   notify, previewVars, excelVars, fmtVars, routeVars, wordVars>>

\* lines 85-96: a progress event of an upload in flight
onUploadProgress ==
    /\ \E u \in uploads, progress \in ProgressSamples :
          processingStatus' = [stage |-> "uploading", progress |-> progress,
                               message |-> "Uploading video..."]
    /\ UNCHANGED <<fps, isProcessing, extractedFrames, isDragOver, uploads,
                   extractCalls, attachVars, notify, previewVars, excelVars,
                   fmtVars, routeVars, wordVars>>

\* lines 100-115 and 123-125: the post resolved: the frames are mapped and
\* set, the status is "completed", and finally isProcessing is reset
uploadResolved ==
    /\ \E u \in uploads, n \in 0 .. MaxFrames :
          /\ uploads' = uploads \ {u}
          /\ extractedFrames' = mapFrames(u, n)
    /\ processingStatus' = [stage |-> "completed", progress |-> 100,
                            message |-> "Frame extraction complete!"]
    /\ isProcessing' = FALSE
    /\ UNCHANGED <<fps, isDragOver, extractCalls, attachVars, notify, previewVars,
                   excelVars, fmtVars, routeVars, wordVars>>

\* lines 116-125: the post rejected, or the response had no frames to map:
\* the status is "error", and finally isProcessing is reset
uploadRejected ==
    /\ \E u \in uploads : uploads' = uploads \ {u}
    /\ processingStatus' = [stage |-> "error", progress |-> 0,
                            message |-> "Failed to process video."]
    /\ isProcessing' = FALSE
    /\ UNCHANGED <<fps, extractedFrames, isDragOver, extractCalls, attachVars,
                   notify, previewVars, excelVars, fmtVars, routeVars, wordVars>>

NextFrames ==
    \/ onChange
    \/ handleDrop
    \/ onDrag
    \/ handleRemoveFile
    \/ setFps
    \/ handleExtractFrames
    \/ onUploadProgress
    \/ uploadResolved
    \/ uploadRejected

SpecFrames == InitFrames /\ [][NextFrames]_vars

\* the request to /upload settles, and the continuation of the await runs
SpecFramesLive == SpecFrames /\ WF_vars(uploadResolved \/ uploadRejected)


\* ==== the lifecycle the specification speaks of, read off the state =======
\* a generate of the mounted component has not completed
Generating == genPending > 0

\* no generate is running and the latest one to complete failed
Failed == genPending = 0 /\ lastGen = "failed"

\* a send request of the preview flow that the step under way settles
Settled(r) == r \in sends /\ \A q \in sends' : q.id # r.id

\* the attachment flow: the same two states
Building == builds # {}
BuildFailed == builds = {} /\ lastBuild = "failed"

\* ==== claims ==============================================================

\* C1: while a generate has not completed (Generating), a second call of
\* generate is rejected: it starts no builder and no remote request.
C1_SecondGenerateRejected == [][Generating => genCalls' = genCalls]_vars

\* C2: a send request is issued only when the lifecycle is Previewable; the
\* formula states its clause on Failed: no send request is issued after the
\* latest generate failed, even if the artifact of an earlier successful
\* generate is still there. (A send while a generate is in flight needs the
\* overlap of handlers that C1 is about.)
C2_NoSendAfterFailedGenerate == [][fetchCount' # fetchCount => ~Failed]_vars

\* C3: after a send of the artifact succeeded (Sent), every further send call
\* issues no request until a new generate has completed successfully.
C3_NoSendAfterSent == [][sentOk => fetchCount' = fetchCount]_vars

\* C4: when the backend fails a send (transport error, or a status other than
\* success), the artifact is retained and the user is notified of an error,
\* never of a success.
C4_SendFailureSurfaced ==
    [][\A r \in sends :
          (Settled(r) /\ r.stage # "200")
              => (notify'.type = "ERROR" /\ pdfBlob' = pdfBlob)]_vars

\* C5: every send action on a produced artifact issues exactly one request:
\* the requests issued equal the send actions accepted, whatever became of
\* the requests (no retry after a failure), and a send needs a built Blob.
C5_OneRequestPerSend ==
    /\ fetchCount = sendAccepted
    /\ Cardinality(sends) <= sendAccepted
    /\ (sendAccepted > 0 => blobCreated > 0)

\* C5 witness: one send was made, it failed, and nothing is in flight
C5_Witness ==
    /\ sendAccepted = 1
    /\ fetchCount = 1
    /\ sends = {}
    /\ notify = NotifySendFailed

\* C6: closing the preview of a previewable artifact revokes its object URL,
\* which then has been revoked exactly once; no step (regenerate, teardown)
\* ever takes the revocation count of a URL above 1.
C6_RevokedExactlyOnce ==
    [][/\ \A u \in Urls : revokeCount'[u] <= 1
       /\ (mounted /\ ~mounted' /\ pdfPreviewUrl # Null)
              => revokeCount'[pdfPreviewUrl] = 1]_vars

\* C6 witness: the preview of URL 1 was closed, the component mounted again,
\* generated URL 2 and was torn down: each URL was revoked once
C6_Witness ==
    /\ ~mounted
    /\ mounts = 1
    /\ revokeCount[1] = 1
    /\ revokeCount[2] = 1

\* C7: once React has committed, every object URL created has been revoked,
\* except at most the one of the artifact now previewed (so at most one URL
\* is live, however many generate/preview cycles ran).
C7_NoLiveUrlButThePreview == EffectsFlushed => LiveUrls \subseteq {pdfPreviewUrl}

\* C8: after a failed generate no artifact is offered for attachment, neither
\* a partial one nor one left from an earlier generate.
C8_NoArtifactAfterFailure == BuildFailed => selectedFile = NoFile

\* C9: from the start of a new generate until it completes, the artifact of
\* the previous generate is no longer held in the session state.
C9_ArtifactDroppedOnGenerate == Building => selectedFile = NoFile

\* C10: a download is triggered only by the user's click on the Send button,
\* with a Blob of a successful generate in state, one download per click, and
\* never by a step of a generate.
C10_DownloadOnlyOnClick ==
    [][downloads' # downloads =>
          /\ downloadClicks' = downloadClicks + 1
          /\ downloads' = downloads + 1
          /\ pdfBlob # Null
          /\ blobCreated >= 1
          /\ genCalls' = genCalls
          /\ genPending' = genPending
          /\ genStale' = genStale
          /\ blobCreated' = blobCreated]_vars

\* C10 witness: the user clicked once and the file was downloaded
C10_Witness == downloads = 1 /\ downloadClicks = 1

\* ---- reading a formatted string back -------------------------------------
DigitValue(c) == CHOOSE d \in 0 .. 9 : Digits[d + 1] = c
IsDigit(c) == \E d \in 0 .. 9 : Digits[d + 1] = c

RECURSIVE Number(_)
Number(s) ==
    IF s = <<>> THEN 0
    ELSE Number(SubSeq(s, 1, Len(s) - 1)) * 10 + DigitValue(s[Len(s)])

AllDigits(s) == \A i \in 1 .. Len(s) : IsDigit(s[i])

\* a call of the formatter fn has returned
Returned(fn) == fmtCall.fn = fn /\ fmtResult # <<>>

\* ---- the export of a variant, read off the state -------------------------
\* generateExcel has returned
ExcelFinished == excelStage \in {"done", "failed"}

\* it got past the remote request: whatever failed, it was not the request
RequestServed == caught.kind # "RequestError"

\* step i refers to a record of the index, by its key and by its timestamp
StepResolved(i) ==
    /\ HasRecord(stepData[i].screenshot)
    /\ hashedTargetValue(stepData[i].screenshot).timestamp = stepData[i].timestamp

\* the index has nothing for step i, neither under its key nor at its timestamp
StepUnresolved(i) ==
    /\ ~HasRecord(stepData[i].screenshot)
    /\ \A j \in DOMAIN elasticData : elasticData[j].timestamp # stepData[i].timestamp

\* every lookup of generateExcel finds a record
AllLookupsResolve ==
    \A i \in DOMAIN stepData :
        \E j \in DOMAIN elasticData : elasticData[j].timestamp = stepData[i].timestamp

\* the app type fields in the order the steps list them: appType of step 1,
\* apptype of step 1, appType of step 2, ...
AppField(p) ==
    LET nodeData == stepData[(p + 1) \div 2]
    IN  IF ~HasRecord(nodeData.screenshot) THEN Absent
        ELSE IF p % 2 = 1 THEN hashedTargetValue(nodeData.screenshot).appType
        ELSE hashedTargetValue(nodeData.screenshot).apptype

FirstAppearance(x) ==
    CHOOSE p \in 1 .. 2 * Len(stepData) :
        AppField(p) = x /\ \A q \in 1 .. p - 1 : AppField(q) # x

\* C11: when step k has no matching screenshot record (and the steps before
\* it have theirs), the Excel builder fails with a MissingScreenshot error
\* that identifies step index k and produces no artifact.
C11_MissingScreenshotReported ==
    \A k \in DOMAIN stepData :
        (/\ StepUnresolved(k)
         /\ \A j \in 1 .. k - 1 : StepResolved(j)
         /\ ExcelFinished
         /\ RequestServed)
            => /\ excelStage = "failed"
               /\ selectedFile = NoFile
               /\ caught.kind = "MissingScreenshot"
               /\ caught.stepIndex = k

\* C12: with N steps and an index that holds, for every step, a record under
\* the step's screenshot key (and at the step's timestamp), the export yields
\* exactly N rows in the order of the step mapping, none unresolved, and the
\* image of each row is the screenshot of the record under that step's key.
C12_RowsCarryOwnScreenshot ==
    ((\A i \in DOMAIN stepData : StepResolved(i)) /\ ExcelFinished /\ RequestServed)
        => /\ excelStage = "done"
           /\ Len(stepSheet.rows) = Len(stepData) + 1
           /\ Len(workbook.anchors) = Len(stepData)
           /\ \A i \in DOMAIN stepData :
                 /\ Number(stepSheet.rows[i + 1][1]) = i
                 /\ workbook.anchors[i].row = i
                 /\ workbook.media[workbook.anchors[i].imageId]
                        = hashedTargetValue(stepData[i].screenshot).screenshot

C14_DurationBelowOneDay ==
    (Returned("epochToHHMMSS") /\ fmtCall.arg < 24 * 3600 * 1000) =>
        LET s == fmtCall.arg \div 1000
            HH == s \div 3600
            MM == (s % 3600) \div 60
            SS == s % 60
        IN  /\ fmtResult = <<Digits[(HH \div 10) + 1], Digits[(HH % 10) + 1], ":",
                             Digits[(MM \div 10) + 1], Digits[(MM % 10) + 1], ":",
                             Digits[(SS \div 10) + 1], Digits[(SS % 10) + 1]>>
            /\ fmtCall.arg = 0 =>
                  fmtResult = <<"0", "0", ":", "0", "0", ":", "0", "0">>
            /\ fmtCall.arg = 3661000 =>
                  fmtResult = <<"0", "1", ":", "0", "1", ":", "0", "1">>
            /\ fmtCall.arg = 86399000 =>
                  fmtResult = <<"2", "3", ":", "5", "9", ":", "5", "9">>

\* C14 witness: 86399000 ms was formatted as 23:59:59
C14_Witness ==
    /\ fmtCall = [fn |-> "epochToHHMMSS", arg |-> 86399000]
    /\ fmtResult = <<"2", "3", ":", "5", "9", ":", "5", "9">>

\* C15: the run-count formatter returns the decimal representation of its
\* argument, left-padded with zeros to width 2 and never further: 5 gives 05,
\* 42 gives 42, 150 gives 150.
C15_RunCountWidthTwo ==
    Returned("singleToDouble") =>
        LET n == fmtCall.arg
        IN  /\ AllDigits(fmtResult)
            /\ Number(fmtResult) = n
            /\ Len(fmtResult) = IF n < 100 THEN 2 ELSE IF n < 1000 THEN 3 ELSE 4
            /\ n = 5 => fmtResult = <<"0", "5">>
            /\ n = 42 => fmtResult = <<"4", "2">>
            /\ n = 150 => fmtResult = <<"1", "5", "0">>

\* C15 witness: 150 was formatted as 150, with no padding
C15_Witness ==
    /\ fmtCall = [fn |-> "singleToDouble", arg |-> 150]
    /\ fmtResult = <<"1", "5", "0">>

\* C16: for inputs of 24 hours or more the hours field is floor(seconds/3600)
\* with no wrap modulo 24, written with as many digits as it needs (more than
\* two from 100 hours on), while the minutes and seconds fields are the two
\* digits of values within 00..59.
C16_HoursNotWrapped ==
    (Returned("epochToHHMMSS") /\ fmtCall.arg >= 24 * 3600 * 1000) =>
        LET sec == fmtCall.arg \div 1000
            n == Len(fmtResult)
            hours == SubSeq(fmtResult, 1, n - 6)
            minutes == SubSeq(fmtResult, n - 4, n - 3)
            seconds == SubSeq(fmtResult, n - 1, n)
        IN  /\ n >= 8
            /\ fmtResult[n - 5] = ":"
            /\ fmtResult[n - 2] = ":"
            /\ AllDigits(hours) /\ AllDigits(minutes) /\ AllDigits(seconds)
            /\ Number(hours) = sec \div 3600
            /\ Number(hours) >= 24
            /\ Len(hours) = IF sec \div 3600 < 100 THEN 2 ELSE 3
            /\ Number(minutes) = (sec % 3600) \div 60
            /\ Number(minutes) \in 0 .. 59
            /\ Number(seconds) = sec % 60
            /\ Number(seconds) \in 0 .. 59

\* C16 witness: 100 hours, 59 minutes, 59.999 seconds came out as 100:59:59
C16_Witness ==
    /\ fmtCall = [fn |-> "epochToHHMMSS", arg |-> 363599999]
    /\ fmtResult = <<"1", "0", "0", ":", "5", "9", ":", "5", "9">>

Answered == httpRes # <<>>

MailRoutes == {"/send-mail", "/send-outlook-mail"}

\* the rows of the User table whose email is the trimmed query
Matching == {i \in DOMAIN userTable : userTable[i].email = trim(httpReq.email)}

\* C18: on every dispatch endpoint (/send-mail and /send-outlook-mail) a send
\* request without a recipient or without a subject is answered 400 and no
\* mail is handed to the transport.
C18_MissingFieldsRejected ==
    (/\ httpReq.route \in MailRoutes
     /\ Answered
     /\ (httpReq.to = Missing \/ httpReq.subject = Missing))
        => /\ Len(httpRes) = 1
           /\ httpRes[1].status = 400
           /\ outbox = <<>>

\* C19: every mail handed to the transport carries exactly one attachment,
\* the file of the request: none goes out without an attachment, none with
\* more than one.
C19_ExactlyOneAttachment ==
    \A i \in DOMAIN outbox :
        /\ Len(outbox[i].attachments) = 1
        /\ httpReq.file # NoUpload
        /\ outbox[i].attachments[1].content = httpReq.file.buffer

\* C20: GET /userinDB sends exactly one response per request: 400 when the
\* email query is missing or empty, 500 when the lookup throws, 404 when it
\* returns no record, 200 with the first matching record as data when there
\* is one; and no other status.
C20_UserInDBResponses ==
    (httpReq.route = "/userinDB" /\ Answered) =>
        /\ Len(httpRes) = 1
        /\ httpRes[1].status \in {200, 400, 404, 500}
        /\ httpRes[1].status = 400 <=> httpReq.email = Missing
        /\ httpRes[1].status = 500 <=> lookup = "threw"
        /\ httpRes[1].status = 404 <=> (lookup = "returned" /\ Matching = {})
        /\ httpRes[1].status = 200 <=> (lookup = "returned" /\ Matching # {})
        /\ httpRes[1].status = 200 =>
              /\ \E i \in Matching :
                    /\ \A j \in Matching : i <= j
                    /\ httpRes[1].body = [data |-> userTable[i]]

\* C20 witness: the query "ann@corp.com " was answered 200 with the first of
\* the two rows of that address
C20_Witness ==
    /\ httpReq.route = "/userinDB"
    /\ httpReq.email = <<"ann@corp.com", " ">>
    /\ Cardinality(Matching) = 2
    /\ httpRes = <<[status |-> 200,
                    body |-> [data |-> [id |-> 2, email |-> <<"ann@corp.com">>]]]>>

\* ---- the artifact a generate function stores, read off a step -------------
\* the MIME type and the file-name extension of each format
FormatType(format) ==
    CASE format = "pdf" -> "application/pdf"
      [] format = "docx" -> "application/vnd.openxmlformats-officedocument.wordprocessingml.document"
      [] format = "pptx" -> "application/vnd.openxmlformats-officedocument.presentationml.presentation"
      [] format = "excel" -> "application/vnd.openxmlformats-officedocument.spreadsheetml.sheet"

FormatExtension(format) ==
    CASE format = "pdf" -> ".pdf"
      [] format = "docx" -> ".docx"
      [] format = "pptx" -> ".pptx"
      [] format = "excel" -> ".xlsx"

\* the generate function b completes in this step and its File is stored
Stored(b) ==
    /\ b \in builds
    /\ b \notin builds'
    /\ selectedFile' # selectedFile
    /\ selectedFile'.build = b.id

\* C21: every artifact a generate function stores has the MIME type and the
\* file-name extension of the format that was requested, for every value of
\* the type argument of generateDocument.
C21_ArtifactMatchesFormat ==
    [][\A b \in builds :
          Stored(b) => /\ selectedFile'.type = FormatType(b.documentType)
                       /\ selectedFile'.name = FormatExtension(b.documentType)]_vars

\* C24: when two generate operations of different formats overlap, the file
\* held once both have completed is the one of the operation started last:
\* the operation that completes last never replaces the file of an operation
\* that was started after it.
C24_LatestStartedWins ==
    [][\A b \in builds :
          (/\ Stored(b)
           /\ builds' = {}
           /\ selectedFile # NoFile
           /\ selectedFile.type # selectedFile'.type)
              => selectedFile.build < b.id]_vars

\* C22: when document assembly returns no document, the Word builder fails
\* fast: no serialization is attempted, no artifact is stored for the call,
\* and a generation error is reported.
C22_WordFailsFast ==
    doc = Undefined
        => /\ packerCalls = 0
           /\ wordStage = "failed"
           /\ notify.type = "ERROR"
           /\ selectedFile.build # wordCalls

\* C30: the two implementations of epochToHHMMSS, the one that prefixes "0"
\* by hand and the one that uses padStart and the remainder, return the same
\* string for every non-negative whole number of milliseconds, durations of
\* 24 hours and more included: what a call of either returns is what the
\* other returns for the same argument.
C30_FormattersAgree ==
    /\ Returned("epochToHHMMSS") => fmtResult = epochToHHMMSSGraph(fmtCall.arg)
    /\ Returned("epochToHHMMSSGraph") => fmtResult = epochToHHMMSS(fmtCall.arg)

\* C30 witness: the hand-prefixed version formatted 100 hours, 9 minutes and
\* 59.999 seconds
C30_Witness ==
    /\ Returned("epochToHHMMSSGraph")
    /\ fmtCall.arg = ((100 * 60 + 9) * 60 + 59) * 1000 + 999
    /\ fmtResult = <<"1", "0", "0", ":", "0", "9", ":", "5", "9">>

\* ---- the Steps sheet, read off the workbook ------------------------------
\* generateExcel has added its two worksheets
HasStepSheet == Len(workbook.sheets) = 2

\* the header row, and the data rows by the number of their step
header == stepSheet.rows[1]
DataRows == 1 .. Len(stepSheet.rows) - 1

\* the column under the header h
Column(h) == CHOOSE c \in 1 .. Len(header) : header[c] = h

\* the cell of the row of step i in that column
Cell(i, h) == stepSheet.rows[i + 1][Column(h)]

\* the node the step i was recorded on
RowNode(i) == nodes[stepData[i].screenshot]

\* the step has no URL: none is set, or its list is empty
NoUrl(node) == node.url.type = "undefined" \/ node.url.value = <<>>

\* an image is anchored on the row of step i
HasImage(i) == \E a \in DOMAIN workbook.anchors : workbook.anchors[a].row = i

\* the row of step i is the one on which the export failed for want of a
\* screenshot
FailedOn(i) == caught.kind = "TypeError" /\ i = Len(stepSheet.rows) - 1

\* C26: the columns of the Steps sheet depend on the mode only: six in
\* plain-variant mode (step no, description, image, locator, timestamp, URL)
\* and seven in translated mode, the translated description coming right
\* after the description; every data row has as many cells as the header,
\* and each value is in the column of its header.
C26_ColumnsByMode ==
    HasStepSheet =>
        /\ header = IF variantType = "variant"
                    THEN <<"Step no", "Description", "Image", "Xpath", "Timestamp", "URL">>
                    ELSE <<"Step no", "Detailed description", "Translated description",
                           "Image", "Xpath", "Timestamp", "URL">>
        /\ \A i \in DataRows :
              /\ Len(stepSheet.rows[i + 1]) = Len(header)
              /\ Number(Cell(i, "Step no")) = i
              /\ Cell(i, header[2]) = stepData[i].description
              /\ variantType # "variant"
                    => Cell(i, "Translated description") = stepData[i].translatedDescription
              /\ Cell(i, "Image") = ""
              /\ HasImage(i) =>
                    \E a \in DOMAIN workbook.anchors :
                        /\ workbook.anchors[a].row = i
                        /\ workbook.anchors[a].col + 1 = Column("Image")
              /\ Cell(i, "Xpath") \in {"", RowNode(i).xpath}
              /\ Cell(i, "Timestamp") = DateToString(RowNode(i).timestamp)
              /\ \/ Cell(i, "URL") = ""
                 \/ /\ ~NoUrl(RowNode(i))
                    /\ Cell(i, "URL") = RowNode(i).url.value[1]

\* C26 witness: a translated variant was exported, and the row of its second
\* step, recorded on a SAP node, has seven cells
C26_Witness ==
    /\ excelStage = "done"
    /\ variantType = "translated"
    /\ Len(stepData) = 2
    /\ RowNode(2).apptype = "SAP"
    /\ stepSheet.rows[3] = <<<<"0", "2">>, "click", "Klick", "", "//btn",
                             DateToString(1000), "">>

\* C27: the URL cell of a data row is empty whenever the step's application
\* type is SAP, EXCEL or OUTLOOK or the step has no URL, and is the first URL
\* of the step's list otherwise.
C27_UrlSuppressed ==
    HasStepSheet =>
        \A i \in DataRows :
            Cell(i, "URL") =
                IF RowNode(i).apptype \in {"SAP", "EXCEL", "OUTLOOK"} \/ NoUrl(RowNode(i))
                THEN ""
                ELSE RowNode(i).url.value[1]

\* C27 witness: the nodes have two URLs each; the row of the EXCEL step has
\* an empty URL cell, the row of the WEB step the first URL
C27_Witness ==
    /\ excelStage = "done"
    /\ Len(stepData) = 2
    /\ RowNode(1).apptype = "EXCEL"
    /\ RowNode(1).url.value = <<"https://w/1", "https://w/2">>
    /\ Cell(1, "URL") = ""
    /\ RowNode(2).apptype = "WEB"
    /\ Cell(2, "URL") = "https://w/1"

\* C28: the locator (Xpath) cell of a data row is the step's locator when the
\* step's application type is SAP, and is empty for every other type.
C28_LocatorOnlyForSap ==
    HasStepSheet =>
        \A i \in DataRows :
            Cell(i, "Xpath") =
                IF RowNode(i).apptype = "SAP" THEN RowNode(i).xpath ELSE ""

\* C28 witness: every node has a locator; the row of the SAP step shows it,
\* the row of the OUTLOOK step does not
C28_Witness ==
    /\ excelStage = "done"
    /\ Len(stepData) = 2
    /\ RowNode(1).apptype = "SAP"
    /\ Cell(1, "Xpath") = "//btn"
    /\ RowNode(2).apptype = "OUTLOOK"
    /\ RowNode(2).xpath = "//btn"
    /\ Cell(2, "Xpath") = ""

\* the sets that can be the image-bearing set: each leaves out at least one
\* application type
ImageBearingSets == (SUBSET AppTypes) \ {AppTypes}

OfSelectedFile(frame) ==
    selectedFile # NoFile /\ frame.url.upload = selectedFile.name

\* the upload u settles in this step
Finishes(u) == u \in uploads /\ u \notin uploads'

\* C23: whenever extractedFrames is non-empty its frames belong to the file
\* that is selected; a response that arrives after the user selected another
\* file or removed the file neither fills extractedFrames nor sets the stage
\* to "completed" for the file that is no longer selected.
C23_FramesOfSelectedFile ==
    /\ [](\A i \in DOMAIN extractedFrames : OfSelectedFile(extractedFrames[i]))
    /\ [][\A u \in uploads :
             (Finishes(u) /\ processingStatus'.stage = "completed")
                 => u.file = selectedFile']_vars

====
